---- MODULE Spec2Model ----
(***************************************************************************)
(* Model of the vLLM API gateway (src/api_gateway.py): an authenticating   *)
(* reverse proxy.  One asyncio event loop runs the handlers; a handler     *)
(* runs without interruption between two awaits, so every action below is  *)
(* the code between two suspension points of one handler.                  *)
(***************************************************************************)
EXTENDS Integers, Sequences, FiniteSets, TLC

\* ------------------------------------------------------------------ bounds
\* Number of inbound requests handled (and in flight together) in a run.
MaxReq == 2
\* Largest number of chunks in an upstream response body.
MaxChunks == 2

\* --------------------------------------------------------------- constants
VLLM_BASE_URL == "http://localhost:8080"

\* HTTP status codes the gateway itself produces.
HTTP_UNAUTHORIZED == 401
HTTP_METHOD_NOT_ALLOWED == 405
HTTP_SERVER_ERROR == 500
HTTP_UNAVAILABLE == 503

MissingDetail == "Missing API key. Include X-API-Key header in your request."
InvalidDetail == "Invalid API key"

\* ------------------------------------------------------------------ inputs
\* Credential strings that occur in the secret and in request headers.
KeyVals == {"", "sk-aaa", "sk-bbb"}
KeyNames == {"service-a", "service-b"}

\* A decoded secret payload: a JSON object mapping names to key strings.  The
\* payloads tried: no name, one name, two names with one value, a value that
\* is the empty string, two names with two values.
Mappings ==
    {m \in UNION {[N -> KeyVals] : N \in SUBSET KeyNames} :
        \/ DOMAIN m = {}
        \/ DOMAIN m = {"service-a"} /\ m["service-a"] = "sk-aaa"
        \/ DOMAIN m = KeyNames /\ m["service-a"] = "sk-bbb" /\ m["service-b"] = "sk-bbb"
        \/ DOMAIN m = KeyNames /\ m["service-a"] = "sk-aaa" /\ m["service-b"] \in {"", "sk-bbb"}}

\* JSON values that are not strings.  The number 7 is written "#7": the mark
\* keeps it apart from every string, the string "7" included.
NonStrings == {"#7"}

\* A decoded JSON object one of whose values is a number.
LooseMappings == {[n \in KeyNames |-> IF n = "service-a" THEN "sk-aaa" ELSE "#7"]}

\* What one access_secret_version + decode + json.loads can produce: no
\* answer, text that is not JSON, JSON that is not an object (an array, a
\* scalar), or an object.
BackendOutcomes ==
    {[kind |-> "unreachable", map |-> <<>>],
     [kind |-> "not_json", map |-> <<>>],
     [kind |-> "not_object", map |-> <<>>]}
    \cup {[kind |-> "object", map |-> m] : m \in Mappings \cup LooseMappings}

\* Header lists as they arrive on the wire: <<name, value>> pairs.
HeaderLists ==
    { << <<"Host", "gw">>, <<"Accept", "json">> >>,
      << <<"Host", "gw">>, <<"X-API-Key", "sk-aaa">>, <<"Accept", "json">> >>,
      << <<"X-API-KEY", "">> >>,
      << <<"X-Api-Key", "sk-bbb">>, <<"x-api-key", "sk-aaa">> >> }

\* A header list that presents the key sk-aaa.
KeyedHeaderLists ==
    { << <<"Host", "gw">>, <<"X-API-Key", "sk-aaa">>, <<"Accept", "json">> >> }

\* The header lists sent to the reload route: without a key, with sk-aaa.
AdminHeaderLists ==
    { << <<"Host", "gw">>, <<"Accept", "json">> >> } \cup KeyedHeaderLists

\* A header list that presents the key sk-aaa and repeats another header.
RepeatedHeaderLists ==
    { << <<"Host", "gw">>, <<"X-API-Key", "sk-aaa">>,
         <<"Accept", "json">>, <<"Accept", "text">> >> }

\* Query strings, as the <<name, value>> pairs in the order they are written.
NoQuery == <<>>
PlainQuery == << <<"stream", "true">> >>
RepeatedQuery == << <<"limit", "1">>, <<"limit", "2">> >>

\* Inbound requests the environment sends.
Inbound ==
    [method : {"POST"}, path : {"v1/models"}, query : {PlainQuery},
     headers : HeaderLists, body : {"prompt"}]
    \cup [method : {"GET"}, path : {"v1/models"}, query : {RepeatedQuery},
          headers : RepeatedHeaderLists, body : {""}]
    \cup [method : {"GET"}, path : {"admin/reload-keys"}, query : {NoQuery},
          headers : AdminHeaderLists, body : {""}]
    \cup [method : {"GET"}, path : {"health"}, query : {NoQuery},
          headers : {<<>>}, body : {""}]
    \cup [method : {"POST"}, path : {"health"}, query : {NoQuery},
          headers : KeyedHeaderLists, body : {""}]
    \cup [method : {"OPTIONS"}, path : {"v1/models"}, query : {NoQuery},
          headers : KeyedHeaderLists, body : {""}]

NoRequest == [method |-> "", path |-> "", query |-> <<>>, headers |-> <<>>, body |-> ""]
NoResponse == [status |-> 0, body |-> [none |-> TRUE]]
NoUpstream == [status |-> 0, recv |-> 0, headers |-> <<>>]

\* Upstream answers: any status, relayed as is.
UpstreamStatuses == {200, 500}

\* The longest body tried with each status: an error reply fits in one chunk.
UpstreamBodyChunks(status) == IF status = 200 THEN MaxChunks ELSE 1

\* The header list the upstream sends with each status, names as httpx
\* reports them (lower case); a header name may occur more than once.
UpstreamHeaders(status) ==
    IF status = 200
    THEN << <<"content-type", "application/json">>,
            <<"set-cookie", "a=1">>, <<"set-cookie", "b=2">> >>
    ELSE << <<"content-type", "text/plain">> >>

\* ------------------------------------------------------------------- state
VARIABLES
    phase,           \* "boot" | "running" | "exited": the process's lifecycle
    GCP_PROJECT,     \* TRUE iff the GCP_PROJECT environment variable is set
    valid_api_keys,  \* the module-level set of valid key strings
    lastFetch,       \* <<>> or <<m>>: the mapping of the last successful fetch
    req,             \* the inbound requests, by slot
    pw,              \* the run of prewarm_compile.py
    versions,        \* the versions of the secret, oldest first
    cli              \* the runs of manage_api_keys.py

vars == <<phase, GCP_PROJECT, valid_api_keys, lastFetch, req, pw, versions, cli>>

\* The gateway's variables, and those of the two scripts.
gateway == <<phase, GCP_PROJECT, valid_api_keys, lastFetch, req>>
scripts == <<pw, versions, cli>>

Slots == 1..MaxReq

\* ---------------------------------------------------------- pure functions
\* The server hands header names to the application in lower case.
Lower(name) ==
    CASE name \in {"X-API-Key", "x-api-key", "X-API-KEY", "X-Api-Key"} -> "x-api-key"
      [] name \in {"Host", "host"} -> "host"
      [] name \in {"Accept", "accept"} -> "accept"
      [] OTHER -> name

\* request.headers: the header list with lower-cased names.
RequestHeaders(hs) == [i \in 1..Len(hs) |-> <<Lower(hs[i][1]), hs[i][2]>>]

\* Headers.get(name): the value of the first header of that name, matched
\* without regard to case; <<>> (None) when there is none, else <<value>>.
HeaderGet(hs, name) ==
    LET idx == {i \in 1..Len(hs) : hs[i][1] = Lower(name)}
    IN IF idx = {} THEN <<>>
       ELSE <<hs[CHOOSE i \in idx : \A j \in idx : i <= j][2]>>

\* dict(request.headers): one entry per name, holding its first value.
HeadersDict(hs) ==
    [n \in {hs[i][1] : i \in 1..Len(hs)} |-> HeaderGet(hs, n)[1]]

\* The values of the headers named n, in the order of the list.
RECURSIVE HeaderValues(_, _)
HeaderValues(hs, n) ==
    IF hs = <<>> THEN <<>>
    ELSE (IF hs[1][1] = n THEN <<hs[1][2]>> ELSE <<>>) \o HeaderValues(Tail(hs), n)

\* ", ".join(values), as the pieces of the joined string.
RECURSIVE JoinComma(_)
JoinComma(vs) ==
    IF Len(vs) <= 1 THEN vs ELSE <<vs[1], ", ">> \o JoinComma(Tail(vs))

\* dict(response.headers) on httpx's Headers: one entry per name, whose value
\* is all the values of that name joined with ", ".
ResponseHeadersDict(hs) ==
    [n \in {hs[i][1] : i \in 1..Len(hs)} |-> JoinComma(HeaderValues(hs, n))]

\* response.headers.get("content-type"): <<>> (None) or <<joined value>>.
ResponseContentType(hs) ==
    IF HeaderValues(hs, "content-type") = <<>> THEN <<>>
    ELSE <<JoinComma(HeaderValues(hs, "content-type"))>>

\* d.pop(key, None)
DictPop(d, key) == [n \in (DOMAIN d) \ {key} |-> d[n]]

\* Variant of DictValues: set(keys_dict), the names instead of the values.
DictValues_names(m) == DOMAIN m

\* set(keys_dict.values())
DictValues(m) == {m[n] : n \in DOMAIN m}

\* The route Starlette picks: routes are tried in the order they were added.
ProxyMethods == {"GET", "POST", "PUT", "DELETE", "PATCH"}
Route(method, path) ==
    IF method = "GET" /\ path = "health" THEN "health"
    ELSE IF method = "GET" /\ path = "admin/reload-keys" THEN "reload"
    ELSE IF method \in ProxyMethods THEN "proxy"
    ELSE "none"

\* load_api_keys_from_secret_manager: [raised, keys] for one backend outcome.
load_api_keys_from_secret_manager(gcp, outcome) ==
    IF ~gcp THEN [raised |-> FALSE, keys |-> {}]
    ELSE IF outcome.kind # "object" THEN [raised |-> TRUE, keys |-> {}]
    ELSE [raised |-> FALSE, keys |-> DictValues(outcome.map)]

\* Variant of validate_api_key: a request without a key passes as anonymous.
validate_api_key_missing_ok(x_api_key, keys) ==
    IF x_api_key = <<>> \/ x_api_key[1] = ""
    THEN [ok |-> TRUE, status |-> 0, detail |-> ""]
    ELSE IF x_api_key[1] \notin keys
    THEN [ok |-> FALSE, status |-> HTTP_UNAUTHORIZED, detail |-> InvalidDetail]
    ELSE [ok |-> TRUE, status |-> 0, detail |-> ""]

\* Variant of validate_api_key: an unknown key is logged but not refused.
validate_api_key_invalid_logged(x_api_key, keys) ==
    IF x_api_key = <<>> \/ x_api_key[1] = ""
    THEN [ok |-> FALSE, status |-> HTTP_UNAUTHORIZED, detail |-> MissingDetail]
    ELSE [ok |-> TRUE, status |-> 0, detail |-> ""]

\* Variant of validate_api_key: no keys loaded means no authentication.
validate_api_key_open_when_empty(x_api_key, keys) ==
    IF keys = {}
    THEN [ok |-> TRUE, status |-> 0, detail |-> ""]
    ELSE IF x_api_key = <<>> \/ x_api_key[1] = ""
    THEN [ok |-> FALSE, status |-> HTTP_UNAUTHORIZED, detail |-> MissingDetail]
    ELSE IF x_api_key[1] \notin keys
    THEN [ok |-> FALSE, status |-> HTTP_UNAUTHORIZED, detail |-> InvalidDetail]
    ELSE [ok |-> TRUE, status |-> 0, detail |-> ""]

\* Variant of validate_api_key: one message for both failures.
validate_api_key_uniform_detail(x_api_key, keys) ==
    IF x_api_key = <<>> \/ x_api_key[1] = "" \/ x_api_key[1] \notin keys
    THEN [ok |-> FALSE, status |-> HTTP_UNAUTHORIZED, detail |-> InvalidDetail]
    ELSE [ok |-> TRUE, status |-> 0, detail |-> ""]

\* Variant of validate_api_key: only an absent header counts as missing
\* (`x_api_key is None`), so an empty value is looked up like any other.
validate_api_key_none_only(x_api_key, keys) ==
    IF x_api_key = <<>>
    THEN [ok |-> FALSE, status |-> HTTP_UNAUTHORIZED, detail |-> MissingDetail]
    ELSE IF x_api_key[1] \notin keys
    THEN [ok |-> FALSE, status |-> HTTP_UNAUTHORIZED, detail |-> InvalidDetail]
    ELSE [ok |-> TRUE, status |-> 0, detail |-> ""]

\* The dependency validate_api_key: x_api_key is <<>> (None) or <<value>>.
validate_api_key(x_api_key, keys) ==
    IF x_api_key = <<>> \/ x_api_key[1] = ""
    THEN [ok |-> FALSE, status |-> HTTP_UNAUTHORIZED, detail |-> MissingDetail]
    ELSE IF x_api_key[1] \notin keys
    THEN [ok |-> FALSE, status |-> HTTP_UNAUTHORIZED, detail |-> InvalidDetail]
    ELSE [ok |-> TRUE, status |-> 0, detail |-> ""]

\* Variant of KeysAfterLoad: the set is emptied before the load is attempted.
KeysAfterLoad_clear_first(old, res) == IF res.raised THEN {} ELSE res.keys

\* Variant of KeysAfterLoad: valid_api_keys.update(loaded), the old keys stay.
KeysAfterLoad_merge(old, res) == IF res.raised THEN old ELSE old \cup res.keys

\* valid_api_keys = load_api_keys_from_secret_manager(): the value of the
\* global after the statement.  When the call raises, no assignment happens;
\* otherwise the name is rebound to the new set object.
KeysAfterLoad(old, res) == IF res.raised THEN old ELSE res.keys

\* The backend calls one load makes, as the kinds of their outcomes.
FetchLog(gcp, outcome) == IF gcp THEN <<outcome.kind>> ELSE <<>>

\* Variant of ForwardHeaders: the key header is popped under its mixed-case
\* name, which the lower-cased dict does not hold.
ForwardHeaders_mixed_case(hs) ==
    DictPop(DictPop(HeadersDict(RequestHeaders(hs)), "X-API-Key"), "host")

\* The headers proxy_to_vllm forwards.
ForwardHeaders(hs) ==
    DictPop(DictPop(HeadersDict(RequestHeaders(hs)), "x-api-key"), "host")

\* params=request.query_params: httpx reads the mapping through items(),
\* which holds one entry per name with the value written last.
QueryParams(q) ==
    [k \in {q[i][1] : i \in 1..Len(q)} |->
        LET vs == HeaderValues(q, k) IN vs[Len(vs)]]

\* The request proxy_to_vllm hands to httpx.
Outbound(inb) ==
    [method |-> inb.method,
     url |-> <<VLLM_BASE_URL, "/", inb.path>>,
     content |-> inb.body,
     headers |-> ForwardHeaders(inb.headers),
     params |-> QueryParams(inb.query)]

\* The credential FastAPI extracts for the dependency.
Credential(inb) == HeaderGet(RequestHeaders(inb.headers), "X-API-Key")

\* -------------------------------------------------------------------- init
\* The pre-warming script is not running.
NoPrewarm ==
    [pc |-> "none", skip |-> "", level |-> <<>>, polls |-> 0, idx |-> 0,
     successful |-> 0, path |-> "", exit |-> 0]

IdleRequest ==
    [pc |-> "Idle", inb |-> NoRequest, route |-> "",
     resp |-> NoResponse, out |-> <<>>, upCalls |-> 0, fetch |-> <<>>,
     up |-> NoUpstream, relayed |-> 0, connOpen |-> FALSE]

Init ==
    /\ phase = "boot"
    /\ GCP_PROJECT \in BOOLEAN
    /\ valid_api_keys = {}
    /\ lastFetch = <<>>
    /\ req = [r \in Slots |-> IdleRequest]
    /\ pw = NoPrewarm
    /\ versions = <<>>
    /\ cli = <<>>

\* ----------------------------------------------------------------- actions
\* lifespan: the startup load.  An exception raised by the load leaves the
\* lifespan context manager, the ASGI server reports a failed startup and
\* the process exits.
lifespan ==
    /\ phase = "boot"
    /\ \E outcome \in BackendOutcomes :
         LET res == load_api_keys_from_secret_manager(GCP_PROJECT, outcome)
         IN IF res.raised
            THEN /\ phase' = "exited"
                 /\ UNCHANGED <<valid_api_keys, lastFetch>>
            ELSE /\ phase' = "running"
                 /\ valid_api_keys' = KeysAfterLoad(valid_api_keys, res)
                 /\ lastFetch' = IF GCP_PROJECT THEN <<outcome.map>> ELSE <<>>
    /\ UNCHANGED <<GCP_PROJECT, req>>
    /\ UNCHANGED scripts

\* A request arrives and is routed.  Slots are filled in order.
Receive(r) ==
    /\ phase = "running"
    /\ req[r].pc = "Idle"
    /\ IF r = 1 THEN TRUE ELSE req[r - 1].pc # "Idle"
    /\ \E inb \in Inbound :
         req' = [req EXCEPT ![r] = [@ EXCEPT !.pc = "Received", !.inb = inb,
                                             !.route = Route(inb.method, inb.path)]]
    /\ UNCHANGED <<phase, GCP_PROJECT, valid_api_keys, lastFetch>>
    /\ UNCHANGED scripts

\* The one event loop is held by a handler that sits in a synchronous call:
\* no other coroutine runs until that call returns.
LoopHeld == \E r \in Slots : req[r].pc = "Fetching"

\* Variant of health_body: without keys the service calls itself unhealthy.
health_body_needs_keys(keys) ==
    [status |-> IF keys = {} THEN "unhealthy" ELSE "healthy",
     service |-> "vllm-api-gateway", keys_loaded |-> Cardinality(keys)]

\* The JSON object health_check returns.
health_body(keys) ==
    [status |-> "healthy", service |-> "vllm-api-gateway",
     keys_loaded |-> Cardinality(keys)]

\* GET /health: no dependency, no await.
health_check(r) ==
    /\ ~LoopHeld
    /\ req[r].pc = "Received"
    /\ req[r].route = "health"
    /\ req' = [req EXCEPT ![r] =
                 [@ EXCEPT !.pc = "Done",
                           !.resp = [status |-> 200,
                                     body |-> health_body(valid_api_keys)]]]
    /\ UNCHANGED <<phase, GCP_PROJECT, valid_api_keys, lastFetch>>
    /\ UNCHANGED scripts

\* No route takes the method: the router answers 405 itself, before any
\* dependency runs.
method_not_allowed(r) ==
    /\ ~LoopHeld
    /\ req[r].pc = "Received"
    /\ req[r].route = "none"
    /\ req' = [req EXCEPT ![r] =
                 [@ EXCEPT !.pc = "Done",
                           !.resp = [status |-> HTTP_METHOD_NOT_ALLOWED,
                                     body |-> [detail |-> "Method Not Allowed"]]]]
    /\ UNCHANGED <<phase, GCP_PROJECT, valid_api_keys, lastFetch>>
    /\ UNCHANGED scripts

\* The 401 response FastAPI builds from the dependency's HTTPException.
Rejected(q, auth) ==
    [q EXCEPT !.pc = "Rejected",
              !.resp = [status |-> auth.status, body |-> [detail |-> auth.detail]]]

\* What reload_keys returns: the success body, or the 500 of its handler.
reload_response(res, outcome, keys) ==
    IF res.raised
    THEN [status |-> HTTP_SERVER_ERROR,
          body |-> [detail |-> <<"Failed to reload keys: ", outcome.kind>>]]
    ELSE [status |-> 200,
          body |-> [status |-> "success",
                    keys_loaded |-> Cardinality(keys),
                    message |-> "API keys reloaded from Secret Manager"]]

\* GET /admin/reload-keys: the dependency, then the handler up to its call of
\* load_api_keys_from_secret_manager, whose access_secret_version is a
\* synchronous call made inside the coroutine.
reload_keys(r) ==
    /\ ~LoopHeld
    /\ req[r].pc = "Received"
    /\ req[r].route = "reload"
    /\ LET auth == validate_api_key(Credential(req[r].inb), valid_api_keys)
       IN IF ~auth.ok
          THEN req' = [req EXCEPT ![r] = Rejected(@, auth)]
          ELSE req' = [req EXCEPT ![r].pc = "Fetching"]
    /\ UNCHANGED <<phase, GCP_PROJECT, valid_api_keys, lastFetch>>
    /\ UNCHANGED scripts

\* The load returns or raises, and reload_keys runs to its end: the
\* assignment and the success body, or the 500.
reload_keys_return(r) ==
    /\ req[r].pc = "Fetching"
    /\ \E outcome \in BackendOutcomes :
         LET res == load_api_keys_from_secret_manager(GCP_PROJECT, outcome)
         IN /\ valid_api_keys' = KeysAfterLoad(valid_api_keys, res)
            /\ lastFetch' = IF GCP_PROJECT /\ ~res.raised
                            THEN <<outcome.map>> ELSE lastFetch
            /\ req' = [req EXCEPT ![r] =
                 [@ EXCEPT !.pc = "Done",
                           !.fetch = @ \o FetchLog(GCP_PROJECT, outcome),
                           !.resp = reload_response(res, outcome, valid_api_keys')]]
    /\ UNCHANGED <<phase, GCP_PROJECT>>
    /\ UNCHANGED scripts

\* /{path:path}: the dependency, then the handler up to the point where it
\* waits for httpx's client.request.
proxy_to_vllm(r) ==
    /\ ~LoopHeld
    /\ req[r].pc = "Received"
    /\ req[r].route = "proxy"
    /\ LET auth == validate_api_key(Credential(req[r].inb), valid_api_keys)
       IN IF ~auth.ok
          THEN req' = [req EXCEPT ![r] = Rejected(@, auth)]
          ELSE req' = [req EXCEPT ![r] =
                         [@ EXCEPT !.pc = "Forwarding",
                                   !.out = <<Outbound(req[r].inb)>>,
                                   !.upCalls = @ + 1, !.connOpen = TRUE]]
    /\ UNCHANGED <<phase, GCP_PROJECT, valid_api_keys, lastFetch>>
    /\ UNCHANGED scripts

\* One chunk of the upstream body reaches httpx, the first one together with
\* the status line.  httpx is still inside client.request: it reads the whole
\* body before it returns.
UpstreamChunk(r) ==
    /\ ~LoopHeld
    /\ req[r].pc = "Forwarding"
    /\ \/ req[r].up.recv = 0
       \/ req[r].up.recv < UpstreamBodyChunks(req[r].up.status)
    /\ \E st \in IF req[r].up.recv = 0 THEN UpstreamStatuses ELSE {req[r].up.status} :
         req' = [req EXCEPT ![r].up =
                   [status |-> IF @.recv = 0 THEN st ELSE @.status,
                    recv |-> @.recv + 1,
                    headers |-> IF @.recv = 0 THEN UpstreamHeaders(st) ELSE @.headers]]
    /\ UNCHANGED <<phase, GCP_PROJECT, valid_api_keys, lastFetch>>
    /\ UNCHANGED scripts

\* Variant of upstream_unavailable: the first failure is answered by a second
\* attempt instead of a 503.
upstream_unavailable_retry(q) ==
    IF q.upCalls < 2
    THEN [q EXCEPT !.upCalls = @ + 1, !.up = NoUpstream]
    ELSE [q EXCEPT !.pc = "UpstreamFailed", !.connOpen = FALSE, !.up = NoUpstream,
                   !.resp = [status |-> HTTP_UNAVAILABLE,
                             body |-> [detail |-> "vLLM server unavailable"]]]

\* except httpx.RequestError: the request is answered 503; the client is
\* closed on the way out of the async-with block.
upstream_unavailable(q) ==
    [q EXCEPT !.pc = "UpstreamFailed", !.connOpen = FALSE, !.up = NoUpstream,
              !.resp = [status |-> HTTP_UNAVAILABLE,
                        body |-> [detail |-> "vLLM server unavailable"]]]

\* Variant of UpstreamError: an upstream failure also drops the loaded keys.
UpstreamError_drops_keys(r) ==
    /\ ~LoopHeld
    /\ req[r].pc = "Forwarding"
    /\ req' = [req EXCEPT ![r] = upstream_unavailable(@)]
    /\ valid_api_keys' = {}
    /\ lastFetch' = <<>>
    /\ UNCHANGED <<phase, GCP_PROJECT>>
    /\ UNCHANGED scripts

\* client.request raises httpx.RequestError (connect error, timeout).
UpstreamError(r) ==
    /\ ~LoopHeld
    /\ req[r].pc = "Forwarding"
    /\ req' = [req EXCEPT ![r] = upstream_unavailable(@)]
    /\ UNCHANGED <<phase, GCP_PROJECT, valid_api_keys, lastFetch>>
    /\ UNCHANGED scripts

\* Variant of TimeoutArmed: the timeout covers only the wait for the
\* upstream's first byte.
TimeoutArmed_connect_only(q) == q.pc = "Forwarding" /\ q.up.recv = 0

\* AsyncClient(timeout=300.0): connecting, sending and every read of
\* client.request are under the timeout, so it is armed for as long as the
\* handler waits for client.request.
TimeoutArmed(q) == q.pc = "Forwarding"

\* The upstream has been silent for the whole timeout: client.request raises
\* httpx.TimeoutException, a RequestError.
UpstreamTimeout(r) ==
    /\ ~LoopHeld
    /\ TimeoutArmed(req[r])
    /\ req' = [req EXCEPT ![r] = upstream_unavailable(@)]
    /\ UNCHANGED <<phase, GCP_PROJECT, valid_api_keys, lastFetch>>
    /\ UNCHANGED scripts

\* The upstream ends the body: client.request returns the fully read
\* response, the handler returns the StreamingResponse and leaves the
\* async-with block, which closes the client.
ProxyReturn(r) ==
    /\ ~LoopHeld
    /\ req[r].pc = "Forwarding"
    /\ req[r].up.recv >= 1
    /\ req' = [req EXCEPT ![r] =
                 [@ EXCEPT !.pc = "Streaming", !.connOpen = FALSE,
                           !.resp = [status |-> req[r].up.status,
                                     headers |-> ResponseHeadersDict(req[r].up.headers),
                                     media_type |-> ResponseContentType(req[r].up.headers),
                                     body |-> [stream |-> TRUE]]]]
    /\ UNCHANGED <<phase, GCP_PROJECT, valid_api_keys, lastFetch>>
    /\ UNCHANGED scripts

\* StreamingResponse iterates response.aiter_bytes(): the content already
\* held in memory is handed to the caller.
RelayBody(r) ==
    /\ ~LoopHeld
    /\ req[r].pc = "Streaming"
    /\ req' = [req EXCEPT ![r] = [@ EXCEPT !.pc = "Completed", !.relayed = req[r].up.recv]]
    /\ UNCHANGED <<phase, GCP_PROJECT, valid_api_keys, lastFetch>>
    /\ UNCHANGED scripts

Next ==
    \/ lifespan
    \/ \E r \in Slots :
         \/ Receive(r)
         \/ health_check(r)
         \/ method_not_allowed(r)
         \/ reload_keys(r)
         \/ reload_keys_return(r)
         \/ proxy_to_vllm(r)
         \/ UpstreamChunk(r)
         \/ UpstreamError(r)
         \/ UpstreamTimeout(r)
         \/ ProxyReturn(r)
         \/ RelayBody(r)

Spec == Init /\ [][Next]_vars

\* A step that needs nothing from outside: a handler that is ready runs, the
\* call to the secret store returns or raises, an armed timeout expires, a
\* response that is ready is sent.
Progress ==
    \E r \in Slots :
        \/ health_check(r)
        \/ method_not_allowed(r)
        \/ reload_keys(r)
        \/ reload_keys_return(r)
        \/ proxy_to_vllm(r)
        \/ UpstreamTimeout(r)
        \/ RelayBody(r)

\* The event loop does not stop while such a step is possible.  Nothing is
\* assumed of the callers or of the upstream.
LiveSpec == Spec /\ WF_vars(Progress)

\* ------------------------------------------------ prewarm_compile.py
\* Largest number of readiness polls before the startup timeout is over.
MaxPolls == 2

PREWARM_LENGTHS == <<128, 256, 512, 1024, 2048>>

\* Values of SKIP_PREWARM ("" when unset) and of VLLM_TORCH_COMPILE_LEVEL
\* (<<>> when unset).
SkipValues == {"", "1", "TRUE", "no"}
CompileLevels == {<<>>, <<"0">>, <<"3">>}

\* str.lower() on the values of SKIP_PREWARM.
StrLower(v) == IF v = "TRUE" THEN "true" ELSE v

\* os.environ.get('VLLM_TORCH_COMPILE_LEVEL', '1')
compile_level(level) == IF level = <<>> THEN "1" ELSE level[1]

\* What one HTTP request of the script can end in.
PollOutcomes == {"200", "503", "refused"}
WarmOutcomes == {"200", "500", "timeout", "refused"}

\* sys.exit(main()) with main returning code on the given path.
PrewarmExit(q, path, code) == [q EXCEPT !.pc = "exited", !.path = path, !.exit = code]

PrewarmInit ==
    /\ phase = "boot"
    /\ GCP_PROJECT = FALSE
    /\ valid_api_keys = {}
    /\ lastFetch = <<>>
    /\ req = [r \in Slots |-> IdleRequest]
    /\ versions = <<>>
    /\ cli = <<>>
    /\ \E sk \in SkipValues, lv \in CompileLevels :
         pw = [NoPrewarm EXCEPT !.pc = "start", !.skip = sk, !.level = lv]

\* main, up to its call of wait_for_server_ready.
prewarm_main ==
    /\ pw.pc = "start"
    /\ pw' = IF StrLower(pw.skip) \in {"1", "true", "yes"}
             THEN PrewarmExit(pw, "skip", 0)
             ELSE IF compile_level(pw.level) = "0"
             THEN PrewarmExit(pw, "disabled", 0)
             ELSE [pw EXCEPT !.pc = "waiting"]
    /\ UNCHANGED <<gateway, versions, cli>>

\* One turn of the loop of wait_for_server_ready, and what main does with
\* the result.  The first test of the loop passes (max_wait is 180 s); a
\* later one fails when the time is over.
wait_for_server_ready ==
    /\ pw.pc = "waiting"
    /\ \/ /\ pw.polls >= 1
          /\ pw' = PrewarmExit(pw, "not_ready", 0)
       \/ /\ pw.polls < MaxPolls
          /\ \E o \in PollOutcomes :
               pw' = IF o = "200"
                     THEN [pw EXCEPT !.pc = "warming", !.polls = @ + 1]
                     ELSE [pw EXCEPT !.polls = @ + 1]
    /\ UNCHANGED <<gateway, versions, cli>>

\* One turn of the loop of run_prewarming: prewarm_request for the next
\* length.
prewarm_request ==
    /\ pw.pc = "warming"
    /\ pw.idx < Len(PREWARM_LENGTHS)
    /\ \E o \in WarmOutcomes :
         pw' = [pw EXCEPT !.idx = @ + 1,
                          !.successful = IF o = "200" THEN @ + 1 ELSE @]
    /\ UNCHANGED <<gateway, versions, cli>>

\* run_prewarming returns the count and main ends.
run_prewarming ==
    /\ pw.pc = "warming"
    /\ pw.idx = Len(PREWARM_LENGTHS)
    /\ pw' = IF pw.successful = 0
             THEN PrewarmExit(pw, "none_succeeded", 0)
             ELSE PrewarmExit(pw, "complete", 0)
    /\ UNCHANGED <<gateway, versions, cli>>

PrewarmNext ==
    \/ prewarm_main
    \/ wait_for_server_ready
    \/ prewarm_request
    \/ run_prewarming

PrewarmSpec == PrewarmInit /\ [][PrewarmNext]_vars

\* ------------------------------------------------- manage_api_keys.py
\* Number of runs of the script, which may overlap.
MaxCli == 2

CliProcs == 1..MaxCli
CliCommands == {"add-key", "remove-key", "rotate-key"}

\* Keys generate_api_key can return.
GeneratedKeys == {"sk-new1", "sk-new2"}

\* The latest version of the secret when the runs begin; <<>> when the
\* secret has no version.
InitialVersions ==
    {<<>>,
     << [n \in {} |-> ""] >>,
     << [n \in {"service-a"} |-> "sk-aaa"] >>,
     << [n \in KeyNames |-> IF n = "service-a" THEN "sk-aaa" ELSE "sk-bbb"] >>}

\* Variant of add_key: an existing name is given the new key.
add_key_overwrites(keys, name, new_key) ==
    [ok |-> TRUE,
     keys |-> [n \in DOMAIN keys \cup {name} |-> IF n = name THEN new_key ELSE keys[n]]]

\* add_key between get_current_keys and update_keys: ok is FALSE when it
\* returns without writing, else keys is the mapping to write.
add_key(keys, name, new_key) ==
    IF name \in DOMAIN keys THEN [ok |-> FALSE, keys |-> keys]
    ELSE [ok |-> TRUE,
          keys |-> [n \in DOMAIN keys \cup {name} |->
                      IF n = name THEN new_key ELSE keys[n]]]

\* remove_key, likewise; it generates no key.
remove_key(keys, name, new_key) ==
    IF name \notin DOMAIN keys THEN [ok |-> FALSE, keys |-> keys]
    ELSE [ok |-> TRUE, keys |-> [n \in DOMAIN keys \ {name} |-> keys[n]]]

\* rotate_key, likewise.
rotate_key(keys, name, new_key) ==
    IF name \notin DOMAIN keys THEN [ok |-> FALSE, keys |-> keys]
    ELSE [ok |-> TRUE,
          keys |-> [n \in DOMAIN keys |-> IF n = name THEN new_key ELSE keys[n]]]

\* main's dispatch on the command.
CliCommand(cmd, keys, name, new_key) ==
    IF cmd = "add-key" THEN add_key(keys, name, new_key)
    ELSE IF cmd = "remove-key" THEN remove_key(keys, name, new_key)
    ELSE rotate_key(keys, name, new_key)

\* A run that has not begun.
IdleCli ==
    [pc |-> "idle", cmd |-> "", name |-> "", read |-> <<>>, keys |-> <<>>,
     new_key |-> "", reported |-> ""]

CliInit ==
    /\ phase = "boot"
    /\ GCP_PROJECT = FALSE
    /\ valid_api_keys = {}
    /\ lastFetch = <<>>
    /\ req = [r \in Slots |-> IdleRequest]
    /\ pw = NoPrewarm
    /\ versions \in InitialVersions
    /\ cli = [p \in CliProcs |-> IdleCli]

\* A run begins: get_current_keys reads the latest version, and the command
\* goes on to the point where it returns or calls update_keys.  Without a
\* version the script exits with 1.
get_current_keys(p) ==
    /\ cli[p].pc = "idle"
    /\ IF p = 1 THEN TRUE ELSE cli[p - 1].pc # "idle"
    /\ \E cmd \in CliCommands, name \in KeyNames, k \in GeneratedKeys :
         IF versions = <<>>
         THEN cli' = [cli EXCEPT ![p] =
                        [@ EXCEPT !.pc = "done", !.cmd = cmd, !.name = name,
                                  !.reported = "exit 1"]]
         ELSE LET keys == versions[Len(versions)]
                  res == CliCommand(cmd, keys, name, k)
              IN cli' = [cli EXCEPT ![p] =
                           [@ EXCEPT !.pc = IF res.ok THEN "writing" ELSE "done",
                                     !.cmd = cmd, !.name = name,
                                     !.read = <<keys>>, !.keys = <<res.keys>>,
                                     !.new_key = IF res.ok /\ cmd # "remove-key"
                                                 THEN k ELSE "",
                                     !.reported = IF res.ok THEN "" ELSE "refused"]]
    /\ UNCHANGED <<gateway, pw, versions>>

\* update_keys adds the edited mapping as a new version, and the command
\* reports its success.
update_keys(p) ==
    /\ cli[p].pc = "writing"
    /\ versions' = Append(versions, cli[p].keys[1])
    /\ cli' = [cli EXCEPT ![p] = [@ EXCEPT !.pc = "done", !.reported = "success"]]
    /\ UNCHANGED <<gateway, pw>>

CliNext ==
    \E p \in CliProcs :
        \/ get_current_keys(p)
        \/ update_keys(p)

CliSpec == CliInit /\ [][CliNext]_vars



\* ------------------------------------------------------------------ claims
AuthRoutes == {"reload", "proxy"}

\* The request in slot r has been answered or is past its credential check.
Checked(r) == req[r].pc \notin {"Idle", "Received"}

\* This step runs the credential check of the request in slot r.
ChecksNow(r) == req[r].pc = "Received" /\ req'[r].pc # "Received"

\* This step ends the load of the reload in slot r.
LoadReturnsNow(r) == req[r].pc = "Fetching" /\ req'[r].pc # "Fetching"

\* The request carries no credential header, under any letter case.
NoCredentialHeader(inb) ==
    \A i \in 1..Len(inb.headers) : Lower(inb.headers[i][1]) # "x-api-key"

\* The request on the wire has a header of this lower-case name.
OutboundHas(q, name) == \E n \in DOMAIN q.out[1].headers : Lower(n) = name

\* Nothing was sent upstream for the request.
NothingForwarded(q) == q.upCalls = 0 /\ q.out = <<>>

\* C1: a request to the proxy or the reload route that carries no credential
\* header is answered 401, whatever the cache holds, and causes neither an
\* upstream request nor a fetch from the credential store.
C1_MissingCredentialUnauthorized ==
    \A r \in Slots :
        (req[r].route \in AuthRoutes /\ Checked(r) /\ NoCredentialHeader(req[r].inb))
        => /\ req[r].pc = "Rejected"
           /\ req[r].resp.status = 401
           /\ NothingForwarded(req[r])
           /\ req[r].fetch = <<>>

\* C1 witness: with keys loaded, a proxy request and a reload request that
\* carry no credential header have both been refused.
C1_Witness ==
    /\ valid_api_keys # {}
    /\ \E r1, r2 \in Slots :
         /\ req[r1].route = "proxy" /\ req[r2].route = "reload"
         /\ NoCredentialHeader(req[r1].inb) /\ NoCredentialHeader(req[r2].inb)
         /\ req[r1].pc = "Rejected" /\ req[r2].pc = "Rejected"

\* C2: when the credential check of a request to the proxy or the reload
\* route finds the presented value outside the cache as it is at that moment,
\* the request is answered 401 and nothing is sent upstream for it, then or
\* later.
C2_UnknownCredentialUnauthorized ==
    [][\A r \in Slots :
         /\ (/\ ChecksNow(r)
             /\ req[r].route \in AuthRoutes
             /\ Credential(req[r].inb) # <<>>
             /\ Credential(req[r].inb)[1] \notin valid_api_keys)
            => /\ req'[r].pc = "Rejected"
               /\ req'[r].resp.status = 401
               /\ NothingForwarded(req'[r])
         /\ req[r].pc = "Rejected" => req'[r] = req[r]]_vars

\* C2 witness: the cache holds sk-aaa only and a proxy request presenting
\* sk-bbb has been refused as invalid.
C2_Witness ==
    /\ valid_api_keys = {"sk-aaa"}
    /\ lastFetch # <<>>
    /\ \E r \in Slots :
         /\ req[r].route = "proxy"
         /\ Credential(req[r].inb) = <<"sk-bbb">>
         /\ req[r].pc = "Rejected"
         /\ req[r].resp.body.detail = InvalidDetail
         /\ NothingForwarded(req[r])

\* C3 as stated: every proxy request whose presented value is a member of the
\* cache at its check is forwarded, without the credential header.
C3_Original ==
    [][\A r \in Slots :
         (/\ ChecksNow(r)
          /\ req[r].route = "proxy"
          /\ Credential(req[r].inb) # <<>>
          /\ Credential(req[r].inb)[1] \in valid_api_keys)
         => /\ req'[r].pc = "Forwarding"
            /\ req'[r].upCalls = 1
            /\ ~OutboundHas(req'[r], "x-api-key")]_vars

\* C3 (amended): every proxy request whose presented value is a non-empty
\* member of the cache at its check is forwarded, and the request sent
\* upstream holds no credential header under any letter case of its name; a
\* request that is being forwarded never shows one.
C3_MemberForwardedWithoutCredential ==
    [][\A r \in Slots :
         /\ (/\ ChecksNow(r)
             /\ req[r].route = "proxy"
             /\ Credential(req[r].inb) # <<>>
             /\ Credential(req[r].inb)[1] # ""
             /\ Credential(req[r].inb)[1] \in valid_api_keys)
            => /\ req'[r].pc = "Forwarding"
               /\ req'[r].upCalls = 1
               /\ req'[r].out # <<>>
               /\ ~OutboundHas(req'[r], "x-api-key")
         /\ req[r].out # <<>> => ~OutboundHas(req[r], "x-api-key")]_vars

\* C3 witness: a request that arrived with the credential header twice, in two
\* letter cases, is being forwarded.
C3_Witness ==
    \E r \in Slots :
        /\ req[r].pc = "Forwarding"
        /\ Len(req[r].inb.headers) = 2
        /\ ~NoCredentialHeader(req[r].inb)
        /\ req[r].out # <<>>
        /\ req[r].upCalls = 1

\* C4: the cache is empty when the process starts, and whenever it is empty a
\* request to the proxy or the reload route, whatever it presents, is
\* answered 401, nothing is sent upstream and the cache stays empty.
C4_FailClosed ==
    [][/\ phase = "boot" => valid_api_keys = {}
       /\ \A r \in Slots :
            (ChecksNow(r) /\ req[r].route \in AuthRoutes /\ valid_api_keys = {})
            => /\ req'[r].pc = "Rejected"
               /\ req'[r].resp.status = 401
               /\ NothingForwarded(req'[r])
               /\ valid_api_keys' = {}]_vars

\* C4 witness: the service runs with an empty cache after a fetch that
\* returned an empty mapping, and has refused a proxy request that presented
\* sk-bbb and a reload request that presented sk-aaa.
C4_Witness ==
    /\ phase = "running"
    /\ valid_api_keys = {}
    /\ \E r1, r2 \in Slots :
         /\ req[r1].route = "proxy" /\ req[r2].route = "reload"
         /\ Credential(req[r1].inb) = <<"sk-bbb">>
         /\ Credential(req[r2].inb) = <<"sk-aaa">>
         /\ req[r1].pc = "Rejected" /\ req[r2].pc = "Rejected"

\* The set of values of a decoded mapping, written out.
ValuesOf(m) == {v \in KeyVals \cup NonStrings : \E n \in DOMAIN m : m[n] = v}

\* The complete set the last successful load produced; empty before any.
CompleteSet(fetched) == IF fetched = <<>> THEN {} ELSE ValuesOf(fetched[1])

\* The presented value v (<<>> when absent) is a non-empty member of keys.
Admits(keys, v) == v # <<>> /\ v[1] # "" /\ v[1] \in keys

\* The reload in slot r has answered with success.
ReloadSucceeded(q) == q.route = "reload" /\ q.pc = "Done" /\ q.resp.status = 200

\* The reload in slot r has answered with its server error.
ReloadFailed(q) == q.route = "reload" /\ q.pc = "Done" /\ q.resp.status = 500

\* C5: a reload whose fetch or decode fails answers 500 and leaves the cache
\* exactly as it was, which is not empty; a 500 is given for no other reason,
\* and every check of a non-empty member of the cache still passes.
C5_FailedReloadKeepsCache ==
    [][\A r \in Slots :
         /\ (/\ LoadReturnsNow(r)
             /\ req[r].route = "reload"
             /\ req'[r].fetch # <<>>
             /\ req'[r].fetch[Len(req'[r].fetch)] # "object")
            => /\ ReloadFailed(req'[r])
               /\ valid_api_keys' = valid_api_keys
               /\ valid_api_keys' # {}
               /\ lastFetch' = lastFetch
         /\ (LoadReturnsNow(r) /\ ReloadFailed(req'[r]))
            => req'[r].fetch[Len(req'[r].fetch)] # "object"
         /\ (/\ ChecksNow(r)
             /\ req[r].route \in AuthRoutes
             /\ Admits(valid_api_keys, Credential(req[r].inb)))
            => req'[r].pc # "Rejected"]_vars

\* C5 witness: a reload authenticated with sk-aaa has failed on an unreachable
\* backend, and a proxy request presenting sk-aaa is being forwarded.
C5_Witness ==
    \E r1, r2 \in Slots :
        /\ ReloadFailed(req[r1])
        /\ req[r1].fetch = <<"unreachable">>
        /\ Credential(req[r1].inb) = <<"sk-aaa">>
        /\ "sk-aaa" \in valid_api_keys
        /\ req[r2].pc = "Forwarding"
        /\ Credential(req[r2].inb) = <<"sk-aaa">>

\* C6 as stated: once a reload has succeeded, every check of a credential of
\* the newly loaded set passes.
C6_Original ==
    [][\A r \in Slots :
         (/\ ChecksNow(r)
          /\ req[r].route \in AuthRoutes
          /\ \E r0 \in Slots : ReloadSucceeded(req[r0])
          /\ Credential(req[r].inb) # <<>>
          /\ Credential(req[r].inb)[1] \in CompleteSet(lastFetch))
         => req'[r].pc # "Rejected"]_vars

\* C6 (amended): a successful reload leaves the cache equal to exactly the
\* values of the mapping the backend returned and reports their number as
\* keys_loaded; every check is decided by the values of the mapping loaded
\* last: a credential outside it (one of an earlier set included) is refused
\* with 401, and a non-empty credential of it passes.
C6_ReloadReplacesWholesale ==
    [][\A r \in Slots :
         /\ (LoadReturnsNow(r) /\ ReloadSucceeded(req'[r]))
            => /\ lastFetch' # <<>>
               /\ valid_api_keys' = ValuesOf(lastFetch'[1])
               /\ req'[r].resp.body.keys_loaded = Cardinality(ValuesOf(lastFetch'[1]))
         /\ (ChecksNow(r) /\ req[r].route \in AuthRoutes)
            => IF Admits(CompleteSet(lastFetch), Credential(req[r].inb))
               THEN req'[r].pc # "Rejected"
               ELSE req'[r].pc = "Rejected" /\ req'[r].resp.status = 401]_vars

\* C6 witness: a reload authenticated with sk-aaa has loaded a two-name
\* mapping whose only value is sk-bbb; it reported one key, and afterwards a
\* proxy request presenting sk-aaa has been refused as invalid.
C6_Witness ==
    \E r1, r2 \in Slots :
        /\ ReloadSucceeded(req[r1])
        /\ Credential(req[r1].inb) = <<"sk-aaa">>
        /\ req[r1].resp.body.keys_loaded = 1
        /\ Cardinality(DOMAIN lastFetch[1]) = 2
        /\ valid_api_keys = {"sk-bbb"}
        /\ req[r2].route = "proxy"
        /\ Credential(req[r2].inb) = <<"sk-aaa">>
        /\ req[r2].pc = "Rejected"
        /\ req[r2].resp.body.detail = InvalidDetail

\* C7: in every state, before and after every step, the cache is one complete
\* loaded set (the values of a single fetched mapping, or the initial empty
\* set), and each credential check is decided by the complete set in place
\* when it runs: never a mixture of two sets, a part of one, or a set emptied
\* in passing.
C7_ReloadAtomic ==
    [][/\ valid_api_keys = CompleteSet(lastFetch)
       /\ valid_api_keys' = CompleteSet(lastFetch')
       /\ \A r \in Slots :
            (ChecksNow(r) /\ req[r].route \in AuthRoutes)
            => (req'[r].pc = "Rejected"
                <=> ~Admits(CompleteSet(lastFetch), Credential(req[r].inb)))]_vars

\* C7 witness: while a request admitted with sk-aaa is in flight to the
\* upstream, a reload has replaced the set by one without sk-aaa.
C7_Witness ==
    \E r1, r2 \in Slots :
        /\ req[r1].pc = "Forwarding"
        /\ Credential(req[r1].inb) = <<"sk-aaa">>
        /\ ReloadSucceeded(req[r2])
        /\ "sk-aaa" \notin valid_api_keys
        /\ valid_api_keys # {}

C9_RelayBeforeBodyComplete ==
    \A r \in Slots :
        /\ (req[r].pc \in {"Streaming", "Completed"} /\ req[r].up.recv >= 2)
           => req[r].relayed >= 1
        /\ req[r].pc = "Streaming" => req[r].connOpen

\* C10: a failure of the credential store never ends the process: after the
\* startup load the service runs, with an empty cache if the load failed.
C10_StoreFailureKeepsProcessUp ==
    /\ phase # "exited"
    /\ phase = "running" => valid_api_keys = CompleteSet(lastFetch)

\* This step answers the liveness probe in slot r.
ProbeNow(r) == ChecksNow(r) /\ req[r].route = "health"

\* C11: the liveness probe is answered 200 without any credential, whatever
\* the cache holds (the empty cache included); keys_loaded is the number of
\* distinct elements of the cache, a number, and the body holds nothing else
\* but the two fixed texts, so no credential value; and
\* answering it changes no cache, sends nothing upstream and fetches nothing
\* from the credential store.  A probe that has arrived gets no other answer.
C11_ProbeAlwaysAnswered ==
    [][\A r \in Slots :
         /\ ProbeNow(r)
            => /\ NoCredentialHeader(req[r].inb)
               /\ req'[r].pc = "Done"
               /\ req'[r].resp.status = 200
               /\ DOMAIN req'[r].resp.body = {"status", "service", "keys_loaded"}
               /\ req'[r].resp.body.keys_loaded = Cardinality(valid_api_keys)
               /\ req'[r].resp.body.status = "healthy"
               /\ req'[r].resp.body.service = "vllm-api-gateway"
               /\ valid_api_keys' = valid_api_keys
               /\ lastFetch' = lastFetch
               /\ NothingForwarded(req'[r])
               /\ req'[r].fetch = <<>>
         /\ (req[r].pc = "Received" /\ req[r].route = "health")
            => req'[r].pc \in {"Received", "Done"}]_vars

\* C11 witness: the probe has been answered with keys_loaded 0 while the
\* cache is empty.
C11_Witness ==
    /\ valid_api_keys = {}
    /\ phase = "running"
    /\ \E r \in Slots :
         /\ req[r].route = "health"
         /\ req[r].pc = "Done"
         /\ req[r].resp.status = 200
         /\ req[r].resp.body.keys_loaded = 0

\* The request in slot r is past its credential check on the proxy route.
Proxied(q) == q.pc \in {"Forwarding", "Streaming", "Completed", "UpstreamFailed"}

\* C12: an authenticated proxied request causes exactly one upstream request,
\* in every state of its handling; when that request fails, the very step
\* that sees the failure answers 503, and no step ever issues a second
\* upstream request for it.
C12_OneUpstreamCallNoRetry ==
    [][\A r \in Slots :
         /\ Proxied(req[r]) => req[r].upCalls = 1 /\ req[r].out # <<>>
         /\ Proxied(req'[r]) => req'[r].upCalls = 1
         /\ req[r].upCalls = 1 => req'[r].upCalls = 1 /\ req'[r].out = req[r].out
         /\ req'[r].pc = "UpstreamFailed"
            => /\ req'[r].resp.status = 503
               /\ req[r].pc \in {"Forwarding", "UpstreamFailed"}
         /\ (req[r].pc = "Forwarding" /\ req'[r].pc = "Forwarding" /\ req'[r] # req[r])
            => req'[r].up.recv = req[r].up.recv + 1]_vars

\* C12 witness: a forwarded request whose upstream call failed has been
\* answered 503, with one upstream request made and nothing relayed.
C12_Witness ==
    \E r \in Slots :
        /\ req[r].pc = "UpstreamFailed"
        /\ req[r].resp.status = 503
        /\ req[r].upCalls = 1
        /\ req[r].relayed = 0

\* The two paths the gateway keeps for itself.
ReservedPaths == {"health", "admin/reload-keys"}

\* C13: a request that presents a valid credential is proxied, whatever its
\* method, when its path is none of the two reserved paths; a request to a
\* reserved path is never sent upstream, whatever its method.
C13_AllButReservedProxied ==
    [][\A r \in Slots :
         /\ (/\ ChecksNow(r)
             /\ req[r].inb.path \notin ReservedPaths
             /\ Admits(valid_api_keys, Credential(req[r].inb)))
            => req'[r].pc = "Forwarding" /\ req'[r].upCalls = 1
         /\ req'[r].inb.path \in ReservedPaths => NothingForwarded(req'[r])]_vars

\* C14: while a reload waits for the credential store, a request that has
\* arrived can have its credential checked, and a probe can be answered.
C14_ChecksProceedDuringReload ==
    \A r1, r2 \in Slots :
        (req[r1].pc = "Fetching" /\ req[r2].pc = "Received")
        => ENABLED (\/ health_check(r2)
                    \/ method_not_allowed(r2)
                    \/ reload_keys(r2)
                    \/ proxy_to_vllm(r2))

\* The steps of the request state machine; the credential check
\* (Authenticating) is the step that leaves Received.
ProxySteps ==
    { <<"Received", "Rejected">>, <<"Received", "Forwarding">>,
      <<"Forwarding", "Streaming">>, <<"Forwarding", "UpstreamFailed">>,
      <<"Streaming", "Completed">> }

ProxyTerminal == {"Rejected", "Completed", "UpstreamFailed"}

\* C15: a proxied request changes state only along Received -> {Rejected |
\* Forwarding} -> {Streaming -> Completed | UpstreamFailed}; it enters
\* Forwarding only from a credential check that passed, a Rejected request has
\* made no upstream call, UpstreamFailed is entered only from Forwarding, and
\* nothing changes in a request that is Rejected, Completed or UpstreamFailed.
C15_RequestStateMachine ==
    [][\A r \in Slots :
         req[r].route = "proxy"
         => /\ req'[r].pc # req[r].pc => <<req[r].pc, req'[r].pc>> \in ProxySteps
            /\ (req'[r].pc = "Forwarding" /\ req[r].pc # "Forwarding")
               => /\ req[r].pc = "Received"
                  /\ Admits(valid_api_keys, Credential(req[r].inb))
            /\ req'[r].pc = "Rejected" => NothingForwarded(req'[r])
            /\ (req'[r].pc = "UpstreamFailed" /\ req[r].pc # "UpstreamFailed")
               => req[r].pc = "Forwarding"
            /\ req[r].pc \in ProxyTerminal => req'[r] = req[r]]_vars

\* C15 witness: one proxied request has been relayed to its end and another
\* has failed at the upstream.
C15_Witness ==
    \E r1, r2 \in Slots :
        /\ req[r1].route = "proxy" /\ req[r1].pc = "Completed"
        /\ req[r2].route = "proxy" /\ req[r2].pc = "UpstreamFailed"

\* C16: every request that has arrived is eventually answered: a proxied one
\* becomes Rejected, Completed or UpstreamFailed, whatever the upstream does
\* or fails to do, and one to the gateway's own routes gets its response.
C16_EveryRequestEnds ==
    \A r \in Slots :
        req[r].pc = "Received"
        ~> IF req[r].route = "proxy"
           THEN req[r].pc \in ProxyTerminal
           ELSE req[r].pc \in {"Rejected", "Done"}

\* C16 witness: the handler waits for the rest of an upstream body that has
\* begun, and the timeout can expire.
C16_Witness ==
    \E r \in Slots :
        /\ req[r].pc = "Forwarding"
        /\ req[r].up.recv >= 1
        /\ ENABLED UpstreamTimeout(r)

\* A header list as the set of its <<name, value>> pairs, each value given as
\* the pieces of its string.
HeaderPairs(hs) == {<<hs[i][1], <<hs[i][2]>>>> : i \in 1..Len(hs)}

\* The headers of a response built from a dict, as <<name, value>> pairs.
DictPairs(d) == {<<n, d[n]>> : n \in DOMAIN d}

\* C17: when the upstream has answered, the caller's response carries the
\* upstream's status code, whatever it is, the upstream's headers, and the
\* upstream's content type.
C17_UpstreamResponseRelayed ==
    \A r \in Slots :
        req[r].pc \in {"Streaming", "Completed"}
        => /\ req[r].resp.status = req[r].up.status
           /\ DictPairs(req[r].resp.headers) = HeaderPairs(req[r].up.headers)
           /\ req[r].resp.media_type
                = <<HeaderValues(req[r].up.headers, "content-type")>>

\* The headers of an inbound request other than the credential header and
\* the host header, as <<name, value>> pairs under lower-cased names.
OtherHeaderPairs(hs) ==
    {<<Lower(hs[i][1]), hs[i][2]>> : i \in {j \in 1..Len(hs) :
                                           Lower(hs[j][1]) \notin {"x-api-key", "host"}}}

\* C18: the request sent to the upstream has the inbound method, body and
\* query string, the upstream base address joined with the inbound path as
\* its URL, and as headers the inbound ones without the credential header and
\* the host header, each with its value.
C18_OutboundIsInboundMinusTwo ==
    \A r \in Slots :
        req[r].out # <<>>
        => LET o == req[r].out[1]
               i == req[r].inb
           IN /\ o.method = i.method
              /\ o.content = i.body
              /\ DictPairs(o.params) = {i.query[k] : k \in 1..Len(i.query)}
              /\ o.url = <<VLLM_BASE_URL, "/", i.path>>
              /\ DictPairs(o.headers) = OtherHeaderPairs(i.headers)

\* C19: the cache is written only by the startup load and by a reload that
\* succeeds; a step of a proxied request, whether it forwards, rejects, relays
\* or fails at the upstream, leaves the cache and every other request as they
\* were.
C19_ProxyNeverWritesCache ==
    [][/\ valid_api_keys' # valid_api_keys
          => \/ phase = "boot" /\ phase' = "running"
             \/ \E r \in Slots : LoadReturnsNow(r) /\ ReloadSucceeded(req'[r])
       /\ \A r \in Slots :
            (req'[r].route = "proxy" /\ req'[r] # req[r])
            => /\ valid_api_keys' = valid_api_keys
               /\ lastFetch' = lastFetch
               /\ \A r2 \in Slots \ {r} : req'[r2] = req[r2]]_vars

\* C19 witness: with one proxied request failed at the upstream and another
\* rejected, the cache still holds the loaded key sk-aaa.
C19_Witness ==
    \E r1, r2 \in Slots :
        /\ req[r1].route = "proxy" /\ req[r1].pc = "UpstreamFailed"
        /\ req[r2].route = "proxy" /\ req[r2].pc = "Rejected"
        /\ valid_api_keys = {"sk-aaa"}
        /\ lastFetch # <<>>

\* C20: a payload that is not a JSON object of names and credential strings
\* is never loaded: every mapping a load has accepted has strings as its
\* values, and every element of the cache is a string.
C20_OnlyStringMappingsLoaded ==
    /\ lastFetch # <<>>
       => \A n \in DOMAIN lastFetch[1] : lastFetch[1][n] \notin NonStrings
    /\ \A k \in valid_api_keys : k \notin NonStrings

\* C22: a reload goes on to its fetch only when its credential is in the
\* cache, so once the running service has an empty cache, whether from the
\* startup load or from a reload that fetched an empty mapping, every reload
\* is refused and the cache is empty in every later state.
C22_EmptyCacheLocksOut ==
    [][/\ \A r \in Slots :
            (ChecksNow(r) /\ req[r].route = "reload")
            => IF Admits(valid_api_keys, Credential(req[r].inb))
               THEN req'[r].pc = "Fetching"
               ELSE req'[r].pc = "Rejected" /\ req'[r].fetch = <<>>
       /\ (phase = "running" /\ valid_api_keys = {})
          => valid_api_keys' = {}]_vars

\* C22 witness: a reload authenticated with sk-aaa has fetched an empty
\* mapping, and a later reload with the same key has been refused.
C22_Witness ==
    \E r1, r2 \in Slots :
        /\ ReloadSucceeded(req[r1])
        /\ lastFetch # <<>> /\ DOMAIN lastFetch[1] = {}
        /\ valid_api_keys = {}
        /\ req[r2].route = "reload" /\ req[r2].pc = "Rejected"
        /\ Credential(req[r2].inb) = <<"sk-aaa">>

\* C23: a credential header whose value is the empty string is answered as a
\* missing credential, 401 with the missing-key message and nothing sent to
\* the upstream or the store, also when the empty string is in the cache.
C23_EmptyStringNeverAuthenticates ==
    [][\A r \in Slots :
         (/\ ChecksNow(r)
          /\ req[r].route \in AuthRoutes
          /\ Credential(req[r].inb) = <<"">>)
         => /\ req'[r].pc = "Rejected"
            /\ req'[r].resp.status = 401
            /\ req'[r].resp.body.detail = MissingDetail
            /\ NothingForwarded(req'[r])
            /\ req'[r].fetch = <<>>]_vars

\* C23 witness: the cache holds the empty string, loaded from a mapping with
\* an empty value, and a request presenting the empty string has been refused.
C23_Witness ==
    \E r \in Slots :
        /\ "" \in valid_api_keys
        /\ Credential(req[r].inb) = <<"">>
        /\ req[r].pc = "Rejected"
        /\ req[r].resp.body.detail = MissingDetail

\* The paths of the pre-warming script that end in a critical failure: the
\* server never became ready, or no warm-up request succeeded.
CriticalPaths == {"not_ready", "none_succeeded"}

\* C21: the pre-warming script exits with 1 on a critical failure and with 0
\* when pre-warming succeeded or was skipped.
C21_ExitCodeFollowsContract ==
    pw.pc = "exited"
    => pw.exit = (IF pw.path \in CriticalPaths THEN 1 ELSE 0)

\* The precondition of a command fails on the mapping it read: add-key for a
\* name that is there, remove-key or rotate-key for one that is not.
PreconditionFails(cmd, keys, name) ==
    IF cmd = "add-key" THEN name \in DOMAIN keys ELSE name \notin DOMAIN keys

\* This step of run p writes a version.
WritesNow(p) == cli[p].pc = "writing" /\ cli'[p].pc = "done"

\* C24: a command whose precondition fails on the version it read reports
\* the refusal and is over without writing; a version is written only by a
\* command whose precondition held, and it differs from the version that
\* command read only in the entry of the given name, which add-key creates
\* with the generated key, remove-key deletes and rotate-key sets to the
\* generated key.
C24_GuardedEditsOnly ==
    [][/\ \A p \in CliProcs :
            /\ (cli[p].pc = "idle" /\ cli'[p].pc # "idle" /\ versions # <<>>)
               => /\ versions' = versions
                  /\ PreconditionFails(cli'[p].cmd, versions[Len(versions)], cli'[p].name)
                     <=> (cli'[p].pc = "done" /\ cli'[p].reported = "refused")
            /\ cli[p].pc = "done" => cli'[p] = cli[p]
            /\ WritesNow(p)
               => LET old == cli[p].read[1]
                      new == versions'[Len(versions')]
                      nm == cli[p].name
                  IN /\ versions' = Append(versions, new)
                     /\ \A n \in (DOMAIN old \cup DOMAIN new) \ {nm} :
                          /\ n \in DOMAIN old /\ n \in DOMAIN new
                          /\ new[n] = old[n]
                     /\ IF cli[p].cmd = "add-key"
                        THEN /\ nm \notin DOMAIN old /\ nm \in DOMAIN new
                             /\ new[nm] = cli[p].new_key
                             /\ new[nm] \in GeneratedKeys
                        ELSE IF cli[p].cmd = "remove-key"
                        THEN nm \in DOMAIN old /\ nm \notin DOMAIN new
                        ELSE /\ nm \in DOMAIN old /\ nm \in DOMAIN new
                             /\ new[nm] = cli[p].new_key
                             /\ new[nm] \in GeneratedKeys
       /\ versions' # versions => \E p \in CliProcs : WritesNow(p)]_vars

\* C24 witness: an add-key for a name that exists has been refused, and a
\* remove-key has written the one new version.
C24_Witness ==
    \E p, q \in CliProcs :
        /\ cli[p].cmd = "add-key" /\ cli[p].reported = "refused"
        /\ cli[q].cmd = "remove-key" /\ cli[q].reported = "success"
        /\ Len(versions) = 2

\* The latest version shows what run p reported.
Reflected(p) ==
    LET latest == versions[Len(versions)]
    IN IF cli[p].cmd = "remove-key"
       THEN cli[p].name \notin DOMAIN latest
       ELSE /\ cli[p].name \in DOMAIN latest
            /\ latest[cli[p].name] = cli[p].new_key

\* C25: when two runs on different names have both reported success, the
\* latest version shows both: an added or rotated key is there, a removed
\* name is not.
C25_NoLostUpdate ==
    \A p, q \in CliProcs :
        (/\ p # q
         /\ cli[p].reported = "success" /\ cli[q].reported = "success"
         /\ cli[p].name # cli[q].name)
        => Reflected(p) /\ Reflected(q)

====
